---- MODULE Spec2Model ----
(***************************************************************************)
(* Radar presence application on FreeRTOS: main() creates the radar task   *)
(* (normal priority) and the terminal UI task (below-normal priority) and  *)
(* starts the scheduler.  The radar task brings up the peripherals and the *)
(* RadarSensing engine and then calls the engine's process step in a loop; *)
(* the engine delivers presence events through radar_sensing_callback.     *)
(* The terminal UI task prints a menu and handles the keys '?', 'r', 's'.  *)
(* Both tasks share terminal_print_mutex and the engine context.           *)
(*                                                                         *)
(* A program counter value names the statement a task is executing; a      *)
(* task can be preempted anywhere inside that statement.                   *)
(***************************************************************************)
EXTENDS Integers, Sequences, FiniteSets, TLC

VARIABLES
    mainPc,      \* position of main()
    rpc,         \* position of radar_task
    rsub,        \* "run" | "blocked" | "resumed": radar task inside an engine call
    mutexInit,   \* cy_rtos_init_mutex has succeeded
    owner,       \* task holding terminal_print_mutex: "none" | "radar" | "ui"
    holds,       \* net successful acquires minus releases
    waiters,     \* tasks blocked inside cy_rtos_get_mutex
    ledRed,      \* LED_RGB_RED  (presence indicator)
    ledGreen,    \* LED_RGB_GREEN (absence indicator)
    engInit,     \* "none" | "ok" | "failed": outcome of mtb_radar_sensing_init
    cbRegistered,
    enabled,
    params,      \* the engine's two parameters
    ev,          \* event the callback is handling
    upc,         \* position of radar_presence_terminal_ui
    cmd,         \* key being handled by the command loop
    rx,          \* rx_value
    line,        \* the bytes stored in value[] by terminal_ui_readline
    maxlength,   \* the line editor's countdown
    setRes,      \* result of the UI's last set_parameter
    mvalue,      \* value[] of terminal_ui_menu
    created,     \* tasks that cy_rtos_create_thread has created
    mainFailed,  \* a checked call of main() has returned non-success
    \* ---- observation (history) variables ----
    bringupFailed, \* a bring-up step of radar_task has returned non-success
    lastEv,      \* last presence event whose callback has returned
    evCount,     \* number of presence events delivered
    freeLog,     \* per event: was the mutex free at the zero-wait acquire
    lines,       \* event numbers of the console lines the callback printed
    procFailed,  \* a process step has returned non-success
    diagPrinted, \* the process-error diagnostic has been printed
    procCalled,  \* a process step has been called
    cfgCalled,   \* a get_parameter or set_parameter call has been made
    badRelease,  \* a release was called by a task that did not hold the mutex
    typed,       \* bytes the line editor has read in the current call
    echo,        \* bytes the line editor has written in the current call
    uiSet,       \* per parameter, the last value the UI has set successfully
    readFailed,  \* the command loop's read has returned non-success
    engLog,      \* the radar task's engine calls, in order (process once)
    inputs,      \* the lines the user may type after a prompt
    tick,        \* the scheduler's tick counter (TickBits wide)
    stamps       \* the timestamps of the last two process steps

vars == << mainPc, rpc, rsub, mutexInit, owner, holds, waiters, ledRed,
           ledGreen, engInit, cbRegistered, enabled, params, ev, upc, cmd, rx,
           line, maxlength, setRes, mvalue, bringupFailed, lastEv, evCount,
           freeLog, lines, procFailed, diagPrinted, procCalled, cfgCalled,
           badRelease, created, mainFailed, typed, echo, uiSet, readFailed, engLog,
           inputs, tick, stamps >>

radarVars == << rpc, rsub, ledRed, ledGreen, engInit, cbRegistered,
                enabled, ev, bringupFailed, lastEv, evCount, freeLog, lines,
                procFailed, diagPrinted, procCalled, engLog >>

mainVars == << mainPc, created, mainFailed >>

\* the user's input and the time base, which the tasks do not write
envVars == << inputs, tick, stamps >>

engineVars == << params, cfgCalled >>

\* what the properties observe of the UI task
obsVars == << typed, echo, uiSet, readFailed >>

uiVars == << upc, cmd, rx, line, maxlength, setRes, mvalue, obsVars >>

mutexVars == << mutexInit, owner, holds, waiters, badRelease >>

(***************************************************************************)
(* Bounds                                                                  *)
(***************************************************************************)
\* presence events the engine delivers in one run
MaxEvents == 2
\* capacity handed to the line editor (stands for the 256 of the source)
MaxLength == 5
\* width in bits of the scheduler's tick counter (stands for the 32 of
\* TickType_t)
TickBits == 3

(***************************************************************************)
(* Program constants                                                       *)
(***************************************************************************)
LED_STATE_OFF == 0
LED_STATE_ON == 1
\* CY_RTOS_NEVER_TIMEOUT
NEVER_TIMEOUT == -1
IFX_RADAR_SENSING_VALUE_MAXLENGTH == MaxLength

SUCCESS == "success"
FAILURE == "failure"
Results == {SUCCESS, FAILURE}

CR == "\r"
NUL == "nul"
\* keys the user can press in the command loop: the menu key, the two
\* commands and one other key
Keys == {"?", "r", "s", "1"}
\* what the user types after a prompt while both tasks run: an empty line,
\* a number in range (no sensitivity), and a line as long as the buffer with
\* no carriage return
InputLines ==
    { << CR >>,
      << "1", CR >>,
      [k \in 1..MaxLength |-> "1"] }

\* what the user types when the line editor is examined on its own: every
\* sequence of MaxLength bytes over a digit, a blank and the carriage return,
\* a decimal number and a sensitivity word
FreeBytes == {"1", " ", CR}
FreeLines ==
    [1..MaxLength -> FreeBytes]
        \cup { << "1", ".", "5", CR >>, << "l", "o", "w", CR >> }

\* bytes the user can type into the line editor
LineBytes == FreeBytes \cup {".", "5", "l", "o", "w"}

IsPrefix(p, w) == Len(p) <= Len(w) /\ SubSeq(w, 1, Len(p)) = p

\* the user may type byte b after the bytes in read
CanType(read, b) == \E w \in inputs : IsPrefix(Append(read, b), w)

\* isspace() on the bytes a terminal sends
IsSpace(b) == b \in {" ", "\t", "\n", CR}

\* default parameter values set by radar_task
DefaultRange == << "1", ".", "0" >>
DefaultSensitivity == << "m", "e", "d", "i", "u", "m" >>
Unset == << "unset" >>
Garbage == << "garbage" >>

(***************************************************************************)
(* Scheduling: preemptive fixed priorities.  The radar task has the higher *)
(* priority, so the UI task runs only while the radar task is blocked (in  *)
(* vTaskDelay, suspended inside an engine call, or waiting for the mutex). *)
(* CY_ASSERT(0) halts the device: after it no task runs.                   *)
(***************************************************************************)
SchedulerRunning == mainPc = "scheduler"

Halted == mainPc = "halted" \/ rpc = "halted"

RadarBlocked ==
    \/ rpc = "delay"
    \/ rsub = "blocked"
    \/ ("radar" \in waiters /\ owner # "none")

RadarRuns == SchedulerRunning /\ ~Halted /\ ~RadarBlocked

\* a UI task that runs whatever the radar task does (equal priorities)
UiRunsAnyPriority == SchedulerRunning /\ ~Halted /\ upc # "exited"

UiRuns == SchedulerRunning /\ ~Halted /\ RadarBlocked /\ upc # "exited"

\* a result check that goes on whatever the result
CheckDropped(result, next) == next

\* if (result != CY_RSLT_SUCCESS) { CY_ASSERT(0); }
Check(result, next) == IF result = SUCCESS THEN next ELSE "halted"

(***************************************************************************)
(* terminal_print_mutex                                                    *)
(***************************************************************************)
\* cy_rtos_get_mutex as seen by task t
GetOutcome(t, timeout) ==
    IF ~mutexInit THEN "error"
    ELSE IF owner \in {"none", t} THEN "acquired"
    ELSE IF timeout = 0 THEN "timeout"
    ELSE "wait"

radar_presence_terminal_mutex_get(t, timeout) ==
    LET o == GetOutcome(t, timeout) IN
    /\ owner' = IF o = "acquired" THEN t ELSE owner
    /\ holds' = IF o = "acquired" THEN holds + 1 ELSE holds
    /\ waiters' = IF o = "wait" THEN waiters \cup {t} ELSE waiters \ {t}
    /\ UNCHANGED << mutexInit, badRelease >>

\* a release that leaves the mutex as it was
mutex_release_dropped(t) ==
    UNCHANGED mutexVars

radar_presence_terminal_mutex_release(t) ==
    /\ IF mutexInit /\ owner = t
         THEN /\ holds' = holds - 1
              /\ owner' = IF holds = 1 THEN "none" ELSE t
              /\ UNCHANGED badRelease
         ELSE /\ badRelease' = TRUE
              /\ UNCHANGED << holds, owner >>
    /\ UNCHANGED << mutexInit, waiters >>

\* set_mute with the argument inverted on the release path
set_mute_always_get(mute) ==
    radar_presence_terminal_mutex_get("ui", NEVER_TIMEOUT)

radar_presence_task_set_mute(mute) ==
    IF mute
      THEN radar_presence_terminal_mutex_get("ui", NEVER_TIMEOUT)
      ELSE radar_presence_terminal_mutex_release("ui")

\* set_mute(true) has returned: the caller goes on unless it is still waiting
MuteReturned == GetOutcome("ui", NEVER_TIMEOUT) # "wait"

(***************************************************************************)
(* main                                                                    *)
(***************************************************************************)
MainBspInit ==
    /\ mainPc = "bsp_init"
    /\ \E result \in Results :
         /\ mainPc' = Check(result, "retarget_init")
         /\ mainFailed' = (result = FAILURE)
    /\ UNCHANGED << envVars, created, radarVars, engineVars, uiVars, mutexVars >>

MainRetargetInit ==
    /\ mainPc = "retarget_init"
    /\ \E result \in Results :
         /\ mainPc' = Check(result, "banner")
         /\ mainFailed' = (result = FAILURE)
    /\ UNCHANGED << envVars, created, radarVars, engineVars, uiVars, mutexVars >>

MainBanner ==
    /\ mainPc = "banner"
    /\ mainPc' = "create_radar"
    /\ UNCHANGED << envVars, created, mainFailed, radarVars, engineVars, uiVars, mutexVars >>

MainCreateRadarTask ==
    /\ mainPc = "create_radar"
    /\ \E result \in Results :
         /\ mainPc' = Check(result, "create_ui")
         /\ created' = IF result = SUCCESS THEN created \cup {"radar"}
                                           ELSE created
         /\ mainFailed' = (result = FAILURE)
    /\ UNCHANGED << envVars, radarVars, engineVars, uiVars, mutexVars >>

MainCreateUiTask ==
    /\ mainPc = "create_ui"
    /\ \E result \in Results :
         /\ mainPc' = Check(result, "start_scheduler")
         /\ created' = IF result = SUCCESS THEN created \cup {"ui"}
                                           ELSE created
         /\ mainFailed' = (result = FAILURE)
    /\ UNCHANGED << envVars, radarVars, engineVars, uiVars, mutexVars >>

\* vTaskStartScheduler returns only on failure, and CY_ASSERT(0) follows it
MainStartScheduler ==
    /\ mainPc = "start_scheduler"
    /\ \E result \in Results :
         /\ mainPc' = Check(result, "scheduler")
         /\ mainFailed' = (result = FAILURE)
    /\ UNCHANGED << envVars, created, radarVars, engineVars, uiVars, mutexVars >>

(***************************************************************************)
(* radar_task: bring-up                                                    *)
(***************************************************************************)
\* a bring-up that enables the engine before it registers the callback
BringUpOrderEnableFirst ==
    << "init_mutex", "led_red", "led_green", "led_blue",
       "gpio_reset", "gpio_ldo", "gpio_irq", "gpio_cs",
       "spi_init", "spi_freq",
       "engine_init", "enable", "register_cb", "set_range", "set_sens" >>

BringUpOrder ==
    << "init_mutex", "led_red", "led_green", "led_blue",
       "gpio_reset", "gpio_ldo", "gpio_irq", "gpio_cs",
       "spi_init", "spi_freq",
       "engine_init", "register_cb", "set_range", "set_sens", "enable" >>

BringUpSteps == { BringUpOrder[k] : k \in 1..Len(BringUpOrder) }

StepIndex(s) == CHOOSE k \in 1..Len(BringUpOrder) : BringUpOrder[k] = s

\* the statement that follows bring-up step s
StepAfter(s) ==
    IF StepIndex(s) = Len(BringUpOrder) THEN "process"
    ELSE BringUpOrder[StepIndex(s) + 1]

\* the control-line cyhal_gpio_init calls, whose return value is dropped
ControlLineSteps == {"gpio_reset", "gpio_ldo", "gpio_irq", "gpio_cs"}

\* the calls into the engine, during which the calling task may be suspended
EngineCallSteps == {"engine_init", "set_range", "set_sens", "enable"}

NoteFailure(s, result) ==
    bringupFailed' = (bringupFailed \/ result = FAILURE)

RadarInitMutex ==
    /\ RadarRuns /\ rpc = "init_mutex"
    /\ \E result \in Results :
         /\ mutexInit' = (result = SUCCESS)
         /\ rpc' = Check(result, StepAfter("init_mutex"))
         /\ NoteFailure("init_mutex", result)
    /\ UNCHANGED << envVars, mainVars, rsub, ledRed, ledGreen, engInit, cbRegistered,
                    enabled, ev, lastEv, evCount, freeLog, lines, procFailed,
                    diagPrinted, procCalled, engLog, engineVars, uiVars,
                    owner, holds, waiters, badRelease >>

\* cyhal_gpio_init of an LED port, initial state off
RadarInitLed ==
    /\ RadarRuns /\ rpc \in {"led_red", "led_green", "led_blue"}
    /\ \E result \in Results :
         /\ ledRed' = IF rpc = "led_red" /\ result = SUCCESS
                        THEN LED_STATE_OFF ELSE ledRed
         /\ ledGreen' = IF rpc = "led_green" /\ result = SUCCESS
                          THEN LED_STATE_OFF ELSE ledGreen
         /\ rpc' = Check(result, StepAfter(rpc))
         /\ NoteFailure(rpc, result)
    /\ UNCHANGED << envVars, mainVars, rsub, engInit, cbRegistered, enabled, ev, lastEv,
                    evCount, freeLog, lines, procFailed, diagPrinted,
                    procCalled, engLog, engineVars, uiVars, mutexVars >>

\* cyhal_gpio_init of reset, LDO enable, IRQ and chip select: result unused
RadarInitControlLine ==
    /\ RadarRuns /\ rpc \in ControlLineSteps
    /\ \E result \in Results :
         /\ rpc' = StepAfter(rpc)
         /\ NoteFailure(rpc, result)
    /\ UNCHANGED << envVars, mainVars, rsub, ledRed, ledGreen, engInit, cbRegistered,
                    enabled, ev, lastEv, evCount, freeLog, lines, procFailed,
                    diagPrinted, procCalled, engLog, engineVars, uiVars, mutexVars >>

\* cyhal_spi_init and cyhal_spi_set_frequency
RadarInitSpi ==
    /\ RadarRuns /\ rpc \in {"spi_init", "spi_freq"}
    /\ \E result \in Results :
         /\ rpc' = Check(result, StepAfter(rpc))
         /\ NoteFailure(rpc, result)
    /\ UNCHANGED << envVars, mainVars, rsub, ledRed, ledGreen, engInit, cbRegistered,
                    enabled, ev, lastEv, evCount, freeLog, lines, procFailed,
                    diagPrinted, procCalled, engLog, engineVars, uiVars, mutexVars >>

\* the engine call in progress suspends the radar task (a delay or a wait
\* for the device inside the library)
RadarSuspend ==
    /\ RadarRuns /\ rpc \in EngineCallSteps /\ rsub = "run"
    /\ rsub' = "blocked"
    /\ UNCHANGED << envVars, mainVars, rpc, ledRed, ledGreen, engInit, cbRegistered,
                    enabled, ev, bringupFailed, lastEv, evCount, freeLog, lines,
                    procFailed, diagPrinted, procCalled, engLog, engineVars, uiVars,
                    mutexVars >>

RadarResume ==
    /\ SchedulerRunning /\ ~Halted /\ rsub = "blocked"
    /\ rsub' = "resumed"
    /\ UNCHANGED << envVars, mainVars, rpc, ledRed, ledGreen, engInit, cbRegistered,
                    enabled, ev, bringupFailed, lastEv, evCount, freeLog, lines,
                    procFailed, diagPrinted, procCalled, engLog, engineVars, uiVars,
                    mutexVars >>

\* mtb_radar_sensing_init returns
RadarEngineInit ==
    /\ RadarRuns /\ rpc = "engine_init"
    /\ \E result \in Results :
         /\ engInit' = IF result = SUCCESS THEN "ok" ELSE "failed"
         /\ rpc' = IF result = SUCCESS THEN StepAfter("engine_init")
                   ELSE "init_err_print"
         /\ NoteFailure("engine_init", result)
    /\ rsub' = "run"
    /\ engLog' = Append(engLog, "engine_init")
    /\ UNCHANGED << envVars, mainVars, ledRed, ledGreen, cbRegistered, enabled, ev,
                    lastEv, evCount, freeLog, lines, procFailed, diagPrinted,
                    procCalled, engineVars, uiVars, mutexVars >>

\* printf("ifx_radar_sensing_init error ..."); CY_ASSERT(0);
RadarInitErrPrint ==
    /\ RadarRuns /\ rpc = "init_err_print"
    /\ rpc' = "halted"
    /\ UNCHANGED << envVars, mainVars, rsub, ledRed, ledGreen, engInit, cbRegistered,
                    enabled, ev, bringupFailed, lastEv, evCount, freeLog, lines,
                    procFailed, diagPrinted, procCalled, engLog, engineVars, uiVars,
                    mutexVars >>

RadarRegisterCallback ==
    /\ RadarRuns /\ rpc = "register_cb"
    /\ \E result \in Results :
         /\ cbRegistered' = (result = SUCCESS)
         /\ rpc' = Check(result, StepAfter("register_cb"))
         /\ NoteFailure("register_cb", result)
    /\ engLog' = Append(engLog, "register_cb")
    /\ UNCHANGED << envVars, mainVars, rsub, ledRed, ledGreen, engInit, enabled, ev,
                    lastEv, evCount, freeLog, lines, procFailed, diagPrinted,
                    procCalled, engineVars, uiVars, mutexVars >>

\* mtb_radar_sensing_set_parameter with the hard-coded defaults
RadarSetDefault ==
    /\ RadarRuns /\ rpc \in {"set_range", "set_sens"}
    /\ \E result \in Results :
         /\ params' = IF result = FAILURE THEN params
                      ELSE IF rpc = "set_range"
                        THEN [params EXCEPT !.range = DefaultRange]
                        ELSE [params EXCEPT !.sens = DefaultSensitivity]
         /\ rpc' = Check(result, StepAfter(rpc))
         /\ NoteFailure(rpc, result)
    /\ cfgCalled' = TRUE
    /\ rsub' = "run"
    /\ engLog' = Append(engLog, rpc)
    /\ UNCHANGED << envVars, mainVars, ledRed, ledGreen, engInit, cbRegistered, enabled,
                    ev, lastEv, evCount, freeLog, lines, procFailed,
                    diagPrinted, procCalled, uiVars, mutexVars >>

RadarEnable ==
    /\ RadarRuns /\ rpc = "enable"
    /\ \E result \in Results :
         /\ enabled' = (result = SUCCESS)
         /\ rpc' = Check(result, StepAfter("enable"))
         /\ NoteFailure("enable", result)
    /\ rsub' = "run"
    /\ engLog' = Append(engLog, "enable")
    /\ UNCHANGED << envVars, mainVars, ledRed, ledGreen, engInit, cbRegistered, ev,
                    lastEv, evCount, freeLog, lines, procFailed, diagPrinted,
                    procCalled, engineVars, uiVars, mutexVars >>

(***************************************************************************)
(* radar_task: the processing loop and radar_sensing_callback              *)
(***************************************************************************)
\* a switch that has a case with writes for every event
EveryEventHandled == {"in", "out", "other"}

\* the events the callback's switch has a case for
PresenceEvents == {"in", "out"}

\* an event outside the two presence events (the switch's default branch)
OtherEvent == "other"

\* mtb_radar_sensing_process is called; the engine may deliver one event to
\* the registered callback before it returns
RadarProcess ==
    /\ RadarRuns /\ rpc = "process"
    /\ procCalled' = TRUE
    /\ engLog' = IF procCalled THEN engLog ELSE Append(engLog, "process")
    /\ \E e \in PresenceEvents \cup {OtherEvent, "none"} :
         /\ e \in PresenceEvents => evCount < MaxEvents
         /\ e # "none" => cbRegistered /\ enabled
         /\ ev' = e
         /\ evCount' = IF e \in PresenceEvents THEN evCount + 1 ELSE evCount
         /\ rpc' = IF e = "none" THEN "proc_ret" ELSE "callback"
    /\ UNCHANGED << envVars, mainVars, rsub, ledRed, ledGreen, engInit, cbRegistered,
                    enabled, bringupFailed, lastEv, freeLog, lines, procFailed,
                    diagPrinted, engineVars, uiVars, mutexVars >>

\* the OUT case written as a copy of the IN case
LedWritesCopied(e) ==
    [red |-> LED_STATE_ON, green |-> LED_STATE_OFF]

\* the two cyhal_gpio_write values of each case of the switch
LedWrites(e) ==
    IF e = "in" THEN [red |-> LED_STATE_ON, green |-> LED_STATE_OFF]
    ELSE [red |-> LED_STATE_OFF, green |-> LED_STATE_ON]

\* switch (event) and the first cyhal_gpio_write of the case
CbFirstWrite ==
    /\ RadarRuns /\ rpc = "callback"
    /\ IF ev \in PresenceEvents
         THEN /\ ledRed' = LedWrites(ev).red
              /\ rpc' = "cb_led2"
         ELSE /\ rpc' = "proc_ret"
              /\ UNCHANGED ledRed
    /\ UNCHANGED << envVars, mainVars, rsub, ledGreen, engInit, cbRegistered, enabled,
                    ev, bringupFailed, lastEv, evCount, freeLog, lines, procFailed,
                    diagPrinted, procCalled, engLog, engineVars, uiVars, mutexVars >>

CbSecondWrite ==
    /\ RadarRuns /\ rpc = "cb_led2"
    /\ ledGreen' = LedWrites(ev).green
    /\ rpc' = "cb_get"
    /\ UNCHANGED << envVars, mainVars, rsub, ledRed, engInit, cbRegistered, enabled,
                    ev, bringupFailed, lastEv, evCount, freeLog, lines, procFailed,
                    diagPrinted, procCalled, engLog, engineVars, uiVars, mutexVars >>

CallbackTimeoutForever == NEVER_TIMEOUT

\* the timeout of the callback's radar_presence_terminal_mutex_get
CallbackTimeout == 0

PrintEvenIfNotAcquired(outcome) ==
    IF outcome = "wait" THEN "cb_get" ELSE "cb_print"

\* if (radar_presence_terminal_mutex_get(0) == CY_RSLT_SUCCESS) {...} break;
CbAfterGet(outcome) ==
    IF outcome = "acquired" THEN "cb_print"
    ELSE IF outcome = "wait" THEN "cb_get"
    ELSE "proc_ret"

CbMutexGet ==
    /\ RadarRuns /\ rpc = "cb_get"
    /\ LET o == GetOutcome("radar", CallbackTimeout) IN
         /\ radar_presence_terminal_mutex_get("radar", CallbackTimeout)
         /\ rpc' = CbAfterGet(o)
         /\ freeLog' = IF Len(freeLog) < evCount
                         THEN Append(freeLog, mutexInit /\ owner = "none")
                         ELSE freeLog
         /\ lastEv' = IF CbAfterGet(o) = "proc_ret" THEN ev ELSE lastEv
    /\ UNCHANGED << envVars, mainVars, rsub, ledRed, ledGreen, engInit, cbRegistered,
                    enabled, ev, bringupFailed, evCount, lines, procFailed,
                    diagPrinted, procCalled, engLog, engineVars, uiVars >>

\* printf of the "Presence IN" / "Presence OUT" line
CbPrint ==
    /\ RadarRuns /\ rpc = "cb_print"
    /\ lines' = Append(lines, evCount)
    /\ rpc' = "cb_release"
    /\ UNCHANGED << envVars, mainVars, rsub, ledRed, ledGreen, engInit, cbRegistered,
                    enabled, ev, bringupFailed, lastEv, evCount, freeLog,
                    procFailed, diagPrinted, procCalled, engLog, engineVars, uiVars,
                    mutexVars >>

\* a callback that returns without the release
CbReturnsHolding ==
    /\ RadarRuns /\ rpc = "cb_release"
    /\ rpc' = "proc_ret"
    /\ lastEv' = ev
    /\ UNCHANGED << envVars, mainVars, rsub, ledRed, ledGreen, engInit,
                    cbRegistered, enabled, ev, bringupFailed, evCount,
                    freeLog, lines, procFailed, diagPrinted, procCalled,
                    engLog, engineVars, uiVars, mutexVars >>

\* radar_presence_terminal_mutex_release() at the end of the case
CbRelease ==
    /\ RadarRuns /\ rpc = "cb_release"
    /\ radar_presence_terminal_mutex_release("radar")
    /\ rpc' = "proc_ret"
    /\ lastEv' = ev
    /\ UNCHANGED << envVars, mainVars, rsub, ledRed, ledGreen, engInit, cbRegistered,
                    enabled, ev, bringupFailed, evCount, freeLog, lines,
                    procFailed, diagPrinted, procCalled, engLog, engineVars, uiVars >>

ProcessFailureIgnored(result) == "delay"

\* a loop that goes to the next process step without the vTaskDelay
ProcessNoDelay(result) ==
    IF result = SUCCESS THEN "process" ELSE "proc_err_print"

\* if (mtb_radar_sensing_process(...) != SUCCESS) { printf; CY_ASSERT(0); }
\* vTaskDelay(MTB_RADAR_SENSING_PROCESS_DELAY);
ProcessCheck(result) ==
    IF result = SUCCESS THEN "delay" ELSE "proc_err_print"

\* mtb_radar_sensing_process returns
RadarProcessReturn ==
    /\ RadarRuns /\ rpc = "proc_ret"
    /\ \E result \in Results :
         /\ rpc' = ProcessCheck(result)
         /\ procFailed' = (procFailed \/ result = FAILURE)
    /\ UNCHANGED << envVars, mainVars, rsub, ledRed, ledGreen, engInit, cbRegistered,
                    enabled, ev, bringupFailed, lastEv, evCount, freeLog, lines,
                    diagPrinted, procCalled, engLog, engineVars, uiVars, mutexVars >>

\* printf("ifx_radar_sensing_process error\n"); CY_ASSERT(0);
RadarProcErrPrint ==
    /\ RadarRuns /\ rpc = "proc_err_print"
    /\ diagPrinted' = TRUE
    /\ rpc' = "halted"
    /\ UNCHANGED << envVars, mainVars, rsub, ledRed, ledGreen, engInit, cbRegistered,
                    enabled, ev, bringupFailed, lastEv, evCount, freeLog, lines,
                    procFailed, procCalled, engLog, engineVars, uiVars, mutexVars >>

\* vTaskDelay expires
RadarWake ==
    /\ SchedulerRunning /\ ~Halted /\ rpc = "delay"
    /\ rpc' = "process"
    /\ UNCHANGED << envVars, mainVars, rsub, ledRed, ledGreen, engInit, cbRegistered,
                    enabled, ev, bringupFailed, lastEv, evCount, freeLog, lines,
                    procFailed, diagPrinted, procCalled, engLog, engineVars, uiVars,
                    mutexVars >>

(***************************************************************************)
(* The engine's parameter interface                                        *)
(***************************************************************************)
Digits == << "0", "1", "2", "3", "4", "5", "6", "7", "8", "9" >>

IsDigit(c) == \E k \in 1..10 : Digits[k] = c

DigitVal(c) == (CHOOSE k \in 1..10 : Digits[k] = c) - 1

RECURSIVE DecimalOf(_)
DecimalOf(v) ==
    IF v = << >> THEN 0
    ELSE 10 * DecimalOf(SubSeq(v, 1, Len(v) - 1)) + DigitVal(v[Len(v)])

AllDigits(v) == \A k \in 1..Len(v) : IsDigit(v[k])

\* the value of a decimal numeral in hundredths of a metre, -1 if v is not one
Hundredths(v) ==
    LET dots == { k \in 1..Len(v) : v[k] = "." } IN
    IF dots = {} THEN
        IF v # << >> /\ AllDigits(v) THEN 100 * DecimalOf(v) ELSE -1
    ELSE IF Cardinality(dots) > 1 THEN -1
    ELSE LET d == CHOOSE k \in dots : TRUE
             ip == SubSeq(v, 1, d - 1)
             fp == SubSeq(v, d + 1, Len(v))
             f2 == SubSeq(fp \o << "0", "0" >>, 1, 2)
         IN IF ip # << >> /\ AllDigits(ip) /\ AllDigits(fp)
              THEN 100 * DecimalOf(ip) + DecimalOf(f2)
              ELSE -1

RangeMin == 66
RangeMax == 1020

SensitivityValues ==
    { << "l", "o", "w" >>, << "m", "e", "d", "i", "u", "m" >>,
      << "h", "i", "g", "h" >> }

\* set_parameter accepts the value
ValidValue(name, v) ==
    IF name = "range"
      THEN Hundredths(v) >= RangeMin /\ Hundredths(v) <= RangeMax
      ELSE v \in SensitivityValues

\* a menu that shows the value the UI last set instead of asking the engine
EngineGetCached(name) == uiSet[name]

\* get_parameter: what the engine writes into the caller's buffer
EngineGet(name) == IF engInit = "ok" THEN params[name] ELSE Garbage

\* the C string held in a character buffer: the bytes before the first NUL
CString(buf) ==
    LET nuls == { k \in 1..Len(buf) : buf[k] = NUL } IN
    IF nuls = {} THEN buf
    ELSE SubSeq(buf, 1, (CHOOSE k \in nuls : \A j \in nuls : k <= j) - 1)

(***************************************************************************)
(* radar_presence_terminal_ui                                              *)
(***************************************************************************)
\* terminal_ui_menu: radar_presence_task_set_mute(true)
UiMenuMute ==
    /\ UiRuns /\ upc = "menu_mute"
    /\ radar_presence_task_set_mute(TRUE)
    /\ upc' = IF MuteReturned THEN "menu_title" ELSE upc
    /\ UNCHANGED << envVars, mainVars, radarVars, engineVars, cmd, rx, line, maxlength,
                    setRes, mvalue, obsVars >>

\* printf("Select a setting to configure\n")
UiMenuTitle ==
    /\ UiRuns /\ upc = "menu_title"
    /\ upc' = "menu_get_range"
    /\ UNCHANGED << envVars, mainVars, radarVars, engineVars, mutexVars, cmd, rx, line,
                    maxlength, setRes, mvalue, obsVars >>

\* mtb_radar_sensing_get_parameter into value[]
UiMenuGet ==
    /\ UiRuns /\ upc \in {"menu_get_range", "menu_get_sens"}
    /\ mvalue' = IF upc = "menu_get_range" THEN EngineGet("range")
                 ELSE EngineGet("sens")
    /\ cfgCalled' = TRUE
    /\ upc' = IF upc = "menu_get_range" THEN "menu_print_range"
              ELSE "menu_print_sens"
    /\ UNCHANGED << envVars, mainVars, radarVars, params, mutexVars, cmd, rx, line,
                    maxlength, setRes, obsVars >>

\* printf("'r': Set presence max range (%s)\n", value) and the 's' line
UiMenuPrintValue ==
    /\ UiRuns /\ upc \in {"menu_print_range", "menu_print_sens"}
    /\ upc' = IF upc = "menu_print_range" THEN "menu_get_sens"
              ELSE "menu_blank"
    /\ UNCHANGED << envVars, mainVars, radarVars, engineVars, mutexVars, cmd, rx, line,
                    maxlength, setRes, mvalue, obsVars >>

\* printf("\n")
UiMenuBlank ==
    /\ UiRuns /\ upc = "menu_blank"
    /\ upc' = "menu_unmute"
    /\ UNCHANGED << envVars, mainVars, radarVars, engineVars, mutexVars, cmd, rx, line,
                    maxlength, setRes, mvalue, obsVars >>

\* radar_presence_task_set_mute(false); back in the command loop, rx_value = 0
UiMenuUnmute ==
    /\ UiRuns /\ upc = "menu_unmute"
    /\ radar_presence_task_set_mute(FALSE)
    /\ upc' = "poll"
    /\ rx' = NUL
    /\ cmd' = "none"
    /\ mvalue' = Garbage    \* the local value[] dies with the call
    /\ UNCHANGED << envVars, mainVars, radarVars, engineVars, line, maxlength, setRes, obsVars >>

\* a switch whose default branch shows the menu
DispatchDefaultMenu(key) ==
    IF key = "r" THEN "r_prompt"
    ELSE IF key = "s" THEN "s_prompt"
    ELSE "menu_mute"

\* where the switch of the command loop sends a key
Dispatch(key) ==
    IF key = "?" THEN "menu_mute"
    ELSE IF key = "r" THEN "r_prompt"
    ELSE IF key = "s" THEN "s_prompt"
    ELSE "info"

\* a command loop that goes on whatever the read returns
LoopConditionAlways(status) == TRUE

\* the condition of the command loop on the status of cyhal_uart_getc
LoopCondition(status) == status = SUCCESS

\* while (cyhal_uart_getc(&cy_retarget_io_uart_obj, &rx_value, 0) == SUCCESS)
\* (the read waits until a byte has arrived or the driver reports an error)
UiPoll ==
    /\ UiRuns /\ upc = "poll"
    /\ \E status \in Results :
         /\ readFailed' = (status # SUCCESS)
         /\ IF LoopCondition(status)
              THEN \E b \in Keys :
                     /\ rx' = b
                     /\ cmd' = b
                     /\ upc' = Dispatch(b)
              ELSE /\ upc' = "farewell"
                   /\ UNCHANGED << rx, cmd >>
    /\ UNCHANGED << envVars, mainVars, radarVars, engineVars, mutexVars, line, maxlength,
                    setRes, mvalue, typed, echo, uiSet >>

\* printf of the 'r' or 's' prompt, then the call of terminal_ui_readline
UiPrompt ==
    /\ UiRuns /\ upc \in {"r_prompt", "s_prompt"}
    /\ upc' = "rl_mute"
    /\ maxlength' = IFX_RADAR_SENSING_VALUE_MAXLENGTH
    /\ UNCHANGED << envVars, mainVars, radarVars, engineVars, mutexVars, cmd, rx, line,
                    setRes, mvalue, obsVars >>

\* terminal_ui_readline: radar_presence_task_set_mute(true)
UiReadlineMute ==
    /\ UiRuns /\ upc = "rl_mute"
    /\ radar_presence_task_set_mute(TRUE)
    /\ upc' = IF MuteReturned THEN "rl_check" ELSE upc
    /\ UNCHANGED << envVars, mainVars, radarVars, engineVars, cmd, rx, line, maxlength,
                    setRes, mvalue, obsVars >>

\* if (maxlength <= 0) return;  int i = 0; uint8_t rx_value = 0;
UiReadlineCheck ==
    /\ UiRuns /\ upc = "rl_check"
    /\ IF maxlength <= 0
         THEN /\ upc' = "set_param"
              /\ UNCHANGED << rx, line >>
         ELSE /\ upc' = "rl_cond"
              /\ rx' = NUL
              /\ line' = << >>
    /\ typed' = << >>
    /\ echo' = << >>
    /\ UNCHANGED << envVars, mainVars, radarVars, engineVars, mutexVars, cmd, maxlength,
                    setRes, mvalue, uiSet, readFailed >>

\* a countdown that allows one byte more
RoomLeftOffByOne(m) == m >= 0

\* (--maxlength > 0), on the decremented value
RoomLeft(m) == m > 0

\* while ((rx_value != '\r') && (--maxlength > 0))
UiReadlineCond ==
    /\ UiRuns /\ upc = "rl_cond"
    /\ IF rx = CR
         THEN /\ upc' = "rl_newline"
              /\ UNCHANGED maxlength
         ELSE /\ maxlength' = maxlength - 1
              /\ upc' = IF RoomLeft(maxlength - 1) THEN "rl_getc"
                                                   ELSE "rl_newline"
    /\ UNCHANGED << envVars, mainVars, radarVars, engineVars, mutexVars, cmd, rx, line,
                    setRes, mvalue, obsVars >>

\* cyhal_uart_getc(uart_ptr, &rx_value, 0): waits for the next byte
UiReadlineGetc ==
    /\ UiRuns /\ upc = "rl_getc"
    /\ \E b \in LineBytes :
         /\ CanType(typed, b)
         /\ rx' = b
         /\ typed' = Append(typed, b)
    /\ upc' = "rl_putc"
    /\ UNCHANGED << envVars, mainVars, radarVars, engineVars, mutexVars, cmd, line,
                    maxlength, setRes, mvalue, echo, uiSet, readFailed >>

\* a line editor that stores every byte it reads
StoredAlways(b) == TRUE

\* if (isspace(rx_value)) { continue; } line[i++] = rx_value;
Stored(b) == ~IsSpace(b)

\* cyhal_uart_putc(uart_ptr, rx_value); if (isspace) continue; line[i++] = rx
UiReadlinePutc ==
    /\ UiRuns /\ upc = "rl_putc"
    /\ echo' = Append(echo, rx)
    /\ line' = IF Stored(rx) THEN Append(line, rx) ELSE line
    /\ upc' = "rl_cond"
    /\ UNCHANGED << envVars, mainVars, radarVars, engineVars, mutexVars, cmd, rx,
                    maxlength, setRes, mvalue, typed, uiSet, readFailed >>

\* cyhal_uart_putc(uart_ptr, '\n'); line[i] = '\0';
UiReadlineNewline ==
    /\ UiRuns /\ upc = "rl_newline"
    /\ upc' = "rl_unmute"
    /\ echo' = Append(echo, "\n")
    /\ UNCHANGED << envVars, mainVars, radarVars, engineVars, mutexVars, cmd, rx, line,
                    maxlength, setRes, mvalue, typed, uiSet, readFailed >>

\* a line editor that returns without the set_mute(false)
UiReadlineReturnsMuted ==
    /\ UiRuns /\ upc = "rl_unmute"
    /\ upc' = "set_param"
    /\ rx' = NUL
    /\ maxlength' = 0
    /\ UNCHANGED << envVars, mainVars, radarVars, engineVars, mutexVars, cmd,
                    line, setRes, mvalue, obsVars >>

\* radar_presence_task_set_mute(false); return (the locals rx_value and
\* maxlength die with the call)
UiReadlineUnmute ==
    /\ UiRuns /\ upc = "rl_unmute"
    /\ radar_presence_task_set_mute(FALSE)
    /\ upc' = "set_param"
    /\ rx' = NUL
    /\ maxlength' = 0
    /\ UNCHANGED << envVars, mainVars, radarVars, engineVars, cmd, line, setRes, mvalue, obsVars >>

ParamOf(key) == IF key = "r" THEN "range" ELSE "sens"

\* a result printer that answers OK whatever the result
print_result_always_ok(result) == "print_ok"

\* terminal_ui_print_result: the printf its switch (result) selects
terminal_ui_print_result(result) ==
    IF result = SUCCESS THEN "print_ok" ELSE "print_error"

\* mtb_radar_sensing_set_parameter(&sensing_context, name, value), passed to
\* terminal_ui_print_result
UiSetParameter ==
    /\ UiRuns /\ upc = "set_param"
    /\ LET v == CString(line) IN
         IF engInit = "ok" /\ ValidValue(ParamOf(cmd), v)
           THEN /\ params' = [params EXCEPT ![ParamOf(cmd)] = v]
                /\ uiSet' = [uiSet EXCEPT ![ParamOf(cmd)] = v]
                /\ setRes' = SUCCESS
                /\ upc' = terminal_ui_print_result(SUCCESS)
           ELSE /\ UNCHANGED << params, uiSet >>
                /\ setRes' = FAILURE
                /\ upc' = terminal_ui_print_result(FAILURE)
    /\ cfgCalled' = TRUE
    /\ UNCHANGED << envVars, mainVars, radarVars, mutexVars, cmd, rx, line, maxlength,
                    mvalue, typed, echo, readFailed >>

\* terminal_ui_print_result: printf("OK\n") or printf("ERROR\n"); rx_value = 0
\* (value[] is rewritten from index 0 by the next terminal_ui_readline, and
\* the result is a temporary: both are dead from here on, and so is the
\* record of what the line editor read and wrote)
UiPrintResult ==
    /\ UiRuns /\ upc \in {"print_ok", "print_error"}
    /\ upc' = "poll"
    /\ rx' = NUL
    /\ cmd' = "none"
    /\ line' = << >>
    /\ setRes' = SUCCESS
    /\ typed' = << >>
    /\ echo' = << >>
    /\ UNCHANGED << envVars, mainVars, radarVars, engineVars, mutexVars, maxlength,
                    mvalue, uiSet, readFailed >>

\* terminal_ui_info: printf("Press '?' to list all radar presence settings\n")
UiInfo ==
    /\ UiRuns /\ upc = "info"
    /\ upc' = "poll"
    /\ rx' = NUL
    /\ cmd' = "none"
    /\ UNCHANGED << envVars, mainVars, radarVars, engineVars, mutexVars, line, maxlength,
                    setRes, mvalue, obsVars >>

\* printf("Exiting terminal ui\n"); cy_rtos_exit_thread();
UiFarewell ==
    /\ UiRuns /\ upc = "farewell"
    /\ upc' = "exited"
    /\ UNCHANGED << envVars, mainVars, radarVars, engineVars, mutexVars, cmd, rx, line,
                    maxlength, setRes, mvalue, obsVars >>

(***************************************************************************)
(* The system                                                              *)
(***************************************************************************)
Init ==
    /\ mainPc = "bsp_init"
    /\ rpc = "init_mutex"
    /\ rsub = "run"
    /\ mutexInit = FALSE
    /\ owner = "none"
    /\ holds = 0
    /\ waiters = {}
    /\ ledRed = LED_STATE_OFF
    /\ ledGreen = LED_STATE_OFF
    /\ engInit = "none"
    /\ cbRegistered = FALSE
    /\ enabled = FALSE
    /\ params = [range |-> Unset, sens |-> Unset]
    /\ ev = "none"
    /\ upc = "menu_mute"
    /\ cmd = "none"
    /\ rx = NUL
    /\ line = << >>
    /\ maxlength = 0
    /\ setRes = SUCCESS
    /\ mvalue = Garbage
    /\ bringupFailed = FALSE
    /\ lastEv = "none"
    /\ evCount = 0
    /\ freeLog = << >>
    /\ lines = << >>
    /\ procFailed = FALSE
    /\ diagPrinted = FALSE
    /\ procCalled = FALSE
    /\ cfgCalled = FALSE
    /\ badRelease = FALSE
    /\ created = {}
    /\ mainFailed = FALSE
    /\ typed = << >>
    /\ echo = << >>
    /\ uiSet = [range |-> Unset, sens |-> Unset]
    /\ readFailed = FALSE
    /\ engLog = << >>
    /\ inputs = InputLines
    /\ tick = 0
    /\ stamps = << >>

Next ==
    \/ MainBspInit \/ MainRetargetInit \/ MainBanner
    \/ MainCreateRadarTask \/ MainCreateUiTask \/ MainStartScheduler
    \/ RadarInitMutex \/ RadarInitLed \/ RadarInitControlLine \/ RadarInitSpi
    \/ RadarSuspend \/ RadarResume
    \/ RadarEngineInit \/ RadarInitErrPrint \/ RadarRegisterCallback
    \/ RadarSetDefault \/ RadarEnable
    \/ RadarProcess \/ CbFirstWrite \/ CbSecondWrite \/ CbMutexGet
    \/ CbPrint \/ CbRelease \/ RadarProcessReturn \/ RadarProcErrPrint
    \/ RadarWake
    \/ UiMenuMute \/ UiMenuTitle \/ UiMenuGet \/ UiMenuPrintValue
    \/ UiMenuBlank \/ UiMenuUnmute \/ UiPoll \/ UiPrompt
    \/ UiReadlineMute \/ UiReadlineCheck \/ UiReadlineCond \/ UiReadlineGetc
    \/ UiReadlinePutc \/ UiReadlineNewline \/ UiReadlineUnmute
    \/ UiSetParameter \/ UiPrintResult \/ UiInfo \/ UiFarewell

Spec == Init /\ [][Next]_vars

(***************************************************************************)
(* The terminal UI on its own: bring-up has succeeded, the radar task has  *)
(* made its first process step and sleeps in vTaskDelay, and the UI task   *)
(* runs for the first time; the user types any of FreeLines.               *)
(***************************************************************************)
LoopReached ==
    /\ mainPc = "scheduler"
    /\ created = {"radar", "ui"}
    /\ mainFailed = FALSE
    /\ rpc = "delay"
    /\ rsub = "run"
    /\ mutexInit = TRUE
    /\ owner = "none"
    /\ holds = 0
    /\ waiters = {}
    /\ ledRed = LED_STATE_OFF
    /\ ledGreen = LED_STATE_OFF
    /\ engInit = "ok"
    /\ cbRegistered = TRUE
    /\ enabled = TRUE
    /\ params = [range |-> DefaultRange, sens |-> DefaultSensitivity]
    /\ ev = "none"
    /\ rx = NUL
    /\ line = << >>
    /\ setRes = SUCCESS
    /\ mvalue = Garbage
    /\ bringupFailed = FALSE
    /\ lastEv = "none"
    /\ evCount = 0
    /\ freeLog = << >>
    /\ lines = << >>
    /\ procFailed = FALSE
    /\ diagPrinted = FALSE
    /\ procCalled = TRUE
    /\ cfgCalled = TRUE
    /\ badRelease = FALSE
    /\ typed = << >>
    /\ echo = << >>
    /\ uiSet = [range |-> Unset, sens |-> Unset]
    /\ readFailed = FALSE
    /\ engLog = << "engine_init", "register_cb", "set_range", "set_sens",
                   "enable", "process" >>

\* the UI task has not run yet
UiStart == LoopReached /\ upc = "menu_mute" /\ cmd = "none" /\ maxlength = 0

UiInit == UiStart /\ inputs = FreeLines /\ tick = 0 /\ stamps = << >>

(***************************************************************************)
(* Fair scheduling.  main() and the radar task take their next step when   *)
(* they can (the radar task has the higher priority, a vTaskDelay and a    *)
(* suspension inside an engine call end).  The UI task is runnable only    *)
(* while the radar task is blocked, which happens in every round of the    *)
(* processing loop, so it is given strong fairness; this includes the      *)
(* reads of the line editor, that is, the user goes on typing a line that  *)
(* has been asked for.  Nothing obliges the user to press a key in the     *)
(* command loop.                                                           *)
(***************************************************************************)
MainStep ==
    \/ MainBspInit \/ MainRetargetInit \/ MainBanner
    \/ MainCreateRadarTask \/ MainCreateUiTask \/ MainStartScheduler

RadarStep ==
    \/ RadarInitMutex \/ RadarInitLed \/ RadarInitControlLine \/ RadarInitSpi
    \/ RadarResume
    \/ RadarEngineInit \/ RadarInitErrPrint \/ RadarRegisterCallback
    \/ RadarSetDefault \/ RadarEnable
    \/ RadarProcess \/ CbFirstWrite \/ CbSecondWrite \/ CbMutexGet
    \/ CbPrint \/ CbRelease \/ RadarProcessReturn \/ RadarProcErrPrint
    \/ RadarWake

UiStep ==
    \/ UiMenuMute \/ UiMenuTitle \/ UiMenuGet \/ UiMenuPrintValue
    \/ UiMenuBlank \/ UiMenuUnmute \/ UiPrompt
    \/ UiReadlineMute \/ UiReadlineCheck \/ UiReadlineCond \/ UiReadlineGetc
    \/ UiReadlinePutc \/ UiReadlineNewline \/ UiReadlineUnmute
    \/ UiSetParameter \/ UiPrintResult \/ UiInfo \/ UiFarewell

Fairness ==
    /\ WF_vars(MainStep)
    /\ WF_vars(RadarStep)
    /\ SF_vars(UiStep)

FairSpec == Spec /\ Fairness

UiNext ==
    \/ UiMenuMute \/ UiMenuTitle \/ UiMenuGet \/ UiMenuPrintValue
    \/ UiMenuBlank \/ UiMenuUnmute \/ UiPoll \/ UiPrompt
    \/ UiReadlineMute \/ UiReadlineCheck \/ UiReadlineCond \/ UiReadlineGetc
    \/ UiReadlinePutc \/ UiReadlineNewline \/ UiReadlineUnmute
    \/ UiSetParameter \/ UiPrintResult \/ UiInfo \/ UiFarewell

UiSpec == UiInit /\ [][UiNext]_vars

(***************************************************************************)
(* terminal_ui_readline as a function of its argument: the call is made    *)
(* with any maxlength from -1 to the buffer capacity (the two call sites   *)
(* of the program pass the capacity), and the specification ends when the  *)
(* function has returned.                                                  *)
(***************************************************************************)
ReadlineInit ==
    /\ LoopReached
    /\ upc = "rl_mute"
    /\ cmd = "r"
    /\ maxlength \in (-1)..IFX_RADAR_SENSING_VALUE_MAXLENGTH
    /\ inputs = FreeLines
    /\ tick = 0
    /\ stamps = << >>

ReadlineNext ==
    \/ UiReadlineMute \/ UiReadlineCheck \/ UiReadlineCond \/ UiReadlineGetc
    \/ UiReadlinePutc \/ UiReadlineNewline \/ UiReadlineUnmute

ReadlineSpec == ReadlineInit /\ [][ReadlineNext]_vars

(***************************************************************************)
(* The time base of the processing loop: the tick interrupt advances the   *)
(* tick counter, which wraps at its width, and every round of the loop     *)
(* passes ifx_currenttime() to the process step.  The specification starts *)
(* with the radar task asleep after its first round and leaves events and  *)
(* the UI task aside.                                                      *)
(***************************************************************************)
\* milliseconds per tick (configTICK_RATE_HZ of 1000)
portTICK_PERIOD_MS == 1

TickModulus == 2 ^ TickBits

\* xTaskGetTickCount() after t tick interrupts since boot
xTaskGetTickCount(t) == t % TickModulus

\* return (uint64_t)xTaskGetTickCount() * portTICK_PERIOD_MS;
ifx_currenttime(t) == xTaskGetTickCount(t) * portTICK_PERIOD_MS

\* the tick interrupt
TimerTick ==
    /\ SchedulerRunning /\ ~Halted
    /\ tick' = (tick + 1) % TickModulus
    /\ UNCHANGED << inputs, stamps, mainVars, radarVars, engineVars, uiVars,
                    mutexVars >>

\* mtb_radar_sensing_process(&sensing_context, ifx_currenttime()) returning
\* success with no event, then vTaskDelay
TimedProcess ==
    /\ RadarRuns /\ rpc = "process"
    /\ stamps' = IF Len(stamps) = 2
                   THEN << stamps[2], ifx_currenttime(tick) >>
                   ELSE Append(stamps, ifx_currenttime(tick))
    /\ rpc' = "delay"
    /\ UNCHANGED << inputs, tick, mainVars, rsub, ledRed, ledGreen, engInit,
                    cbRegistered, enabled, ev, bringupFailed, lastEv, evCount,
                    freeLog, lines, procFailed, diagPrinted, procCalled,
                    engLog, engineVars, uiVars, mutexVars >>

TimeInit == UiStart /\ inputs = InputLines /\ tick = 0 /\ stamps = << >>

TimeNext == TimerTick \/ TimedProcess \/ RadarWake

TimeSpec == TimeInit /\ [][TimeNext]_vars

(***************************************************************************)
(* Observations used by the properties                                     *)
(***************************************************************************)
\* the radar task is inside a printf
RadarWriting == rpc \in {"cb_print", "proc_err_print", "init_err_print"}

\* the UI task is inside a printf or a cyhal_uart_putc
UiWriting ==
    upc \in {"menu_title", "menu_print_range", "menu_print_sens",
             "menu_blank", "r_prompt", "s_prompt", "rl_putc", "rl_newline",
             "print_ok", "print_error", "info", "farewell"}

\* the UI task is between a set_mute(true) that has returned and the
\* matching set_mute(false)
UiMuted ==
    upc \in {"menu_title", "menu_get_range", "menu_print_range",
             "menu_get_sens", "menu_print_sens", "menu_blank", "menu_unmute",
             "rl_check", "rl_cond", "rl_getc", "rl_putc", "rl_newline",
             "rl_unmute"}

\* the radar task is inside radar_sensing_callback
InCallback == rpc \in {"callback", "cb_led2", "cb_get", "cb_print", "cb_release"}

\* the event numbers whose zero-wait acquire found the mutex free, in order
RECURSIVE FreeEvents(_)
FreeEvents(flog) ==
    IF flog = << >> THEN << >>
    ELSE LET front == FreeEvents(SubSeq(flog, 1, Len(flog) - 1)) IN
         IF flog[Len(flog)] THEN Append(front, Len(flog)) ELSE front

(***************************************************************************)
(* Properties                                                              *)
(***************************************************************************)

\* C1 (as claimed): every console write of either task is made while the
\* writing task holds the console mutex, and the two tasks are never both in
\* the middle of a console write.
C1_AllOutputUnderMutex ==
    /\ RadarWriting => owner = "radar"
    /\ UiWriting => owner = "ui"
    /\ ~(RadarWriting /\ UiWriting)

\* C2: the number of outstanding holds on the console mutex is 0 or 1, it is
\* 1 exactly when some task is the holder, and no task ever calls release
\* without holding the mutex.
C2_HoldsZeroOrOne ==
    /\ holds \in {0, 1}
    /\ (holds = 1) <=> (owner # "none")
    /\ ~badRelease

\* C2 witness: the UI holds the mutex inside the line editor after the radar
\* callback has acquired and released it for a print.
C2_Witness ==
    /\ owner = "ui" /\ holds = 1 /\ upc = "rl_getc"
    /\ lines # << >> /\ rpc = "cb_get"

\* C3: the radar task is never blocked on the console mutex, and a callback
\* that finds the mutex held by the UI returns at once without printing.
C3_RadarNeverWaits ==
    /\ []("radar" \notin waiters)
    /\ [][(rpc = "cb_get" /\ owner = "ui")
            => (rpc' = "proc_ret" /\ lines' = lines /\ owner' = "ui")]_vars

\* C3 witness: the callback has returned from an event that it met while the
\* UI held mute inside the line editor, waiting for a byte.
C3_Witness ==
    /\ rpc = "proc_ret" /\ upc = "rl_getc" /\ owner = "ui"
    /\ freeLog # << >> /\ ~freeLog[Len(freeLog)]

\* C4: once the callback has returned for a PresenceIn event the presence
\* LED is on and the absence LED off, for a PresenceOut event the reverse,
\* printed or not; before the first event both LEDs are off.
C4_IndicatorsFollowLastEvent ==
    ~InCallback =>
        /\ lastEv = "in" => (ledRed = LED_STATE_ON /\ ledGreen = LED_STATE_OFF)
        /\ lastEv = "out" => (ledRed = LED_STATE_OFF /\ ledGreen = LED_STATE_ON)
        /\ evCount = 0 => (ledRed = LED_STATE_OFF /\ ledGreen = LED_STATE_OFF)

\* C4 witness: a PresenceOut event whose print was dropped has been handled
\* after a PresenceIn event.
C4_Witness ==
    /\ rpc = "proc_ret" /\ lastEv = "out" /\ evCount = 2
    /\ Len(freeLog) = 2 /\ ~freeLog[2]
    /\ ledGreen = LED_STATE_ON

\* C5: the callback prints exactly the events whose zero-wait acquire found
\* the mutex free, one line each, in event order, never later; and the radar
\* task halts only after a failed bring-up or process step, never because a
\* print was dropped.
C5_OneLinePerFreeAcquire ==
    /\ IF rpc = "cb_print"
         THEN /\ freeLog # << >> /\ freeLog[Len(freeLog)]
              /\ lines = FreeEvents(SubSeq(freeLog, 1, Len(freeLog) - 1))
         ELSE lines = FreeEvents(freeLog)
    /\ rpc = "halted" => (bringupFailed \/ procFailed)

\* C5 witness: of two events the first was dropped and the second printed,
\* and the radar task is back in its delay.
C5_Witness ==
    /\ freeLog = << FALSE, TRUE >> /\ lines = << 2 >> /\ rpc = "delay"

\* C6 (as claimed): whenever the UI waits for an input byte, in the command
\* loop or in the line editor, it does not hold the console mutex.
C6_NoHoldWhileWaitingForKey ==
    upc \in {"poll", "rl_getc"} => owner # "ui"

\* C6 (amended): the UI does not hold the console mutex while it waits for a
\* key in the command loop, and it does hold it while it waits for a byte
\* inside the line editor.
C6_HoldOnlyInLineEditor ==
    /\ upc = "poll" => owner # "ui"
    /\ upc = "rl_getc" => (owner = "ui" /\ holds = 1)

\* C6 witness: the UI waits for a byte in the line editor while the radar
\* task processes, and has been through the command loop before.
C6_Witness ==
    /\ upc = "rl_getc" /\ owner = "ui" /\ rpc = "process" /\ cmd = "s"

\* C7 (as claimed): while the UI is between set_mute(true) and the matching
\* set_mute(false) the radar task, in its processing loop, writes nothing to
\* the console.
C7_MutedRadarSilent ==
    (UiMuted /\ procCalled) => ~RadarWriting

\* C8 (as claimed): a bring-up step of the radar task that returns
\* non-success halts the task at that step.
C8_BringUpFailureFatal ==
    bringupFailed => rpc \in {"init_err_print", "halted"}

\* C9 (as claimed): if the engine init fails, no process step and no
\* get_parameter or set_parameter call is ever made.
C9_InitFailureNoEngineCalls ==
    engInit = "failed" => (~procCalled /\ ~cfgCalled)

\* C10: after the first process step that returns non-success the radar task
\* is printing the diagnostic or halted (so no process step or callback
\* follows), and it halts only after the diagnostic.
C10_ProcessFailureHalts ==
    procFailed =>
        /\ rpc \in {"proc_err_print", "halted"}
        /\ rpc = "halted" => diagPrinted

\* C10 witness: the process step failed after events had been handled, and
\* the task has printed the diagnostic and halted.
C10_Witness ==
    /\ procFailed /\ rpc = "halted" /\ diagPrinted /\ evCount = 2

\* the defaults the README documents: 2 m, in hundredths of a metre, and
\* "medium"
DocumentedRange == 200
DocumentedSensitivity == << "m", "e", "d", "i", "u", "m" >>

\* C11 (as claimed): once the engine is enabled, and as long as the UI has
\* changed neither parameter, the maximum range is the documented 2 m and
\* the sensitivity is the documented "medium".
C11_DocumentedDefaultsAtEnable ==
    (enabled /\ uiSet = [range |-> Unset, sens |-> Unset]) =>
        /\ Hundredths(params.range) = DocumentedRange
        /\ params.sens = DocumentedSensitivity

\* the UI is inside the printf("OK\n") or printf("ERROR\n") of
\* terminal_ui_print_result
UiPrintsResult == upc \in {"print_ok", "print_error"}

\* the value the UI hands to set_parameter is one the engine accepts
EnteredValid == ValidValue(ParamOf(cmd), CString(line))

\* C12: when the value entered after 'r' or 's' is one the engine rejects
\* (a range outside 0.66-10.2 m or not a number, a sensitivity that is none
\* of low, medium, high, the empty line included), the set_parameter step
\* leaves both stored values as they were and goes to the ERROR print, and
\* the ERROR print goes back to the command loop with the values unchanged.
C12_RejectedValueKeepsOld ==
    [][ /\ (upc = "set_param" /\ ~EnteredValid) =>
              (upc' = "print_error" /\ params' = params /\ uiSet' = uiSet)
        /\ upc = "print_error" => (upc' = "poll" /\ params' = params)
      ]_vars

\* C12 witness: the empty line was entered for the sensitivity after the
\* user had set it to "low"; ERROR is being printed and "low" is still stored.
C12_Witness ==
    /\ upc = "print_error" /\ cmd = "s" /\ typed = << CR >> /\ line = << >>
    /\ params.sens = << "l", "o", "w" >>

\* C13 (as claimed): a valid value entered after 'r' or 's' is answered with
\* OK, OK is printed exactly when set_parameter returned success, and the
\* menu shows for each parameter the value the user last set.
C13_ValidValueReadBack ==
    /\ (UiPrintsResult /\ EnteredValid) => upc = "print_ok"
    /\ UiPrintsResult => (upc = "print_ok" <=> setRes = SUCCESS)
    /\ (upc = "menu_print_range" /\ uiSet.range # Unset) =>
           mvalue = uiSet.range
    /\ (upc = "menu_print_sens" /\ uiSet.sens # Unset) =>
           mvalue = uiSet.sens

\* the bytes of a sequence that are not white space, in order
NonSpace(bytes) == SelectSeq(bytes, LAMBDA b : ~IsSpace(b))

\* the position of the first carriage return in a sequence that has one
FirstCR(bytes) ==
    CHOOSE k \in 1..Len(bytes) :
        bytes[k] = CR /\ \A j \in 1..(k - 1) : bytes[j] # CR

\* C14: when the line editor returns after the user typed a carriage return,
\* the line is exactly the non-white-space bytes typed before the first
\* carriage return, in order; the carriage return is the last byte read; and
\* the editor has written every byte it read, in order, and then one newline.
C14_LineIsNonSpaceBeforeCR ==
    (upc \in {"rl_unmute", "set_param"}
        /\ \E k \in 1..Len(typed) : typed[k] = CR) =>
        /\ CString(line) = NonSpace(SubSeq(typed, 1, FirstCR(typed) - 1))
        /\ FirstCR(typed) = Len(typed)
        /\ echo = Append(typed, "\n")

\* C14 witness: blank, '1', blank, carriage return were typed and the editor
\* has returned "1".
C14_Witness ==
    /\ upc = "set_param" /\ typed = << " ", "1", " ", CR >>
    /\ line = << "1" >> /\ echo = << " ", "1", " ", CR, "\n" >>

\* C15: a key other than '?', 'r' and 's' takes the command loop to the hint
\* and the hint takes it back to the read, and neither step changes a
\* parameter value, an indicator or the holder of the console mutex.
C15_OtherKeyOnlyHint ==
    [][ /\ (upc = "poll" /\ upc' # "poll" /\ ~readFailed'
                /\ rx' \notin {"?", "r", "s"}) =>
              /\ upc' = "info"
              /\ UNCHANGED << params, ledRed, ledGreen, owner, holds >>
        /\ (upc = "info" /\ upc' # "info") =>
              /\ upc' = "poll"
              /\ UNCHANGED << params, ledRed, ledGreen, owner, holds >>
      ]_vars

\* C15 witness: the key '1' is being answered with the hint while the
\* presence indicator is on and the user has set a range before.
C15_Witness ==
    /\ upc = "info" /\ cmd = "1" /\ owner = "none"
    /\ ledRed = LED_STATE_ON /\ uiSet.range # Unset

\* C16 (as claimed): from the prompt of 'r' or 's' until the OK or ERROR has
\* been printed the UI holds the console mutex.
C16_HoldsFromPromptToResult ==
    upc \in {"r_prompt", "s_prompt", "rl_check", "rl_cond", "rl_getc",
             "rl_putc", "rl_newline", "rl_unmute", "set_param", "print_ok",
             "print_error"} => owner = "ui"

\* C17: the UI is at the farewell or has exited exactly when the read of the
\* command loop has returned non-success, and from there it handles no
\* further key.
C17_LeavesOnlyOnReadFailure ==
    /\ [](upc \in {"farewell", "exited"} <=> readFailed)
    /\ [][(upc \in {"farewell", "exited"}) =>
             (upc' \in {"farewell", "exited"} /\ cmd' = cmd /\ rx' = rx)]_vars

\* C17 witness: the read failed after a parameter had been set, and the UI
\* task has printed the farewell and exited.
C17_Witness ==
    /\ upc = "exited" /\ readFailed /\ uiSet.range # Unset /\ owner = "none"

\* C19: the radar task's engine calls are a prefix of init, register
\* callback, set range, set sensitivity, enable, process; a process step is
\* made only with the engine enabled, the engine is enabled only with the
\* callback registered, and an event is delivered only to a registered
\* callback.
C19_EngineCallOrder ==
    /\ IsPrefix(engLog, << "engine_init", "register_cb", "set_range",
                           "set_sens", "enable", "process" >>)
    /\ procCalled => enabled
    /\ enabled => cbRegistered
    /\ (InCallback \/ evCount > 0) => cbRegistered

\* C19 witness: all six calls have been made and the callback is printing
\* the first event.
C19_Witness ==
    /\ Len(engLog) = 6 /\ rpc = "cb_print" /\ evCount = 1

\* C20: the scheduler runs only with both tasks created; a task has left its
\* first statement only with the scheduler running; and after a failed call
\* of main() main is halted and both tasks are still at their first
\* statement.
C20_SchedulerAfterBothTasks ==
    /\ mainPc \in {"start_scheduler", "scheduler"} =>
           created = {"radar", "ui"}
    /\ (rpc # "init_mutex" \/ upc # "menu_mute") => mainPc = "scheduler"
    /\ mainFailed =>
           (mainPc = "halted" /\ rpc = "init_mutex" /\ upc = "menu_mute")

\* C20 witness: the radar task was created, the creation of the UI task
\* failed, and main is halted with neither task started.
C20_Witness ==
    /\ mainPc = "halted" /\ mainFailed /\ created = {"radar"}
    /\ rpc = "init_mutex" /\ upc = "menu_mute"

\* the holder of the console mutex changes only from or to "none"
HolderChangesThroughFree ==
    [][(owner # "none" /\ owner' # owner) => owner' = "none"]_vars

\* C18 (as claimed): the console mutex passes from one task to the other only
\* through a release (so the next holder after a task is "none", by that
\* task's release), a held mutex is eventually released, and the UI task
\* does not hold it when it has exited.
C18_EveryAcquireReleased ==
    /\ HolderChangesThroughFree
    /\ [](upc = "exited" => owner # "ui")
    /\ (owner # "none") ~> (owner = "none")

\* C18 (amended): as claimed, but the UI task's release may be forestalled by
\* a fatal halt: the radar task never halts while it holds the mutex, and a
\* held mutex is eventually released or the device is halted by CY_ASSERT(0).
C18_ReleasedUnlessHalted ==
    /\ HolderChangesThroughFree
    /\ [](upc = "exited" => owner # "ui")
    /\ [](Halted => owner # "radar")
    /\ (owner # "none") ~> (owner = "none" \/ Halted)

\* C18 witness: the callback has printed an event and the UI has shown the
\* menu and read a line, each under the mutex, and the UI task has exited
\* with the mutex free.
C18_Witness ==
    /\ upc = "exited" /\ owner = "none" /\ holds = 0
    /\ lines # << >> /\ uiSet.range # Unset

\* the radar task has entered its processing loop
InLoop == procCalled \/ rpc = "process"

\* C21: a process step that has returned is followed by the vTaskDelay
\* exactly when it returned success; every process step that is called
\* reaches that vTaskDelay unless a process step fails; and every vTaskDelay
\* ends with the next process step about to be called, whatever the UI task
\* does.
C21_ProcessLoopLive ==
    /\ [][(rpc = "proc_ret" /\ rpc' # rpc) =>
             /\ rpc' \in {"delay", "proc_err_print"}
             /\ rpc' = "delay" <=> ~procFailed']_vars
    /\ (InLoop /\ rpc # "delay") ~> (rpc = "delay" \/ procFailed)
    /\ (rpc = "delay") ~> (rpc = "process")

\* C21 witness: the loop is about to call the process step again while the
\* UI holds the mute and waits for a byte of a line.
C21_Witness ==
    /\ rpc = "process" /\ procCalled /\ ~procFailed /\ evCount = MaxEvents
    /\ upc = "rl_getc" /\ owner = "ui"

\* C22 (as claimed): of two successive process steps the later one is given
\* a timestamp that is not smaller, also when the tick counter wraps.
C22_TimestampsMonotonic ==
    Len(stamps) = 2 => stamps[1] <= stamps[2]

\* the statements of terminal_ui_menu
MenuPcs ==
    {"menu_mute", "menu_title", "menu_get_range", "menu_print_range",
     "menu_get_sens", "menu_print_sens", "menu_blank", "menu_unmute"}

C24_ReadsAtMostCapacityMinusOne ==
    /\ Len(typed) <= IFX_RADAR_SENSING_VALUE_MAXLENGTH - 1
    /\ upc = "rl_getc" => Len(typed) < IFX_RADAR_SENSING_VALUE_MAXLENGTH - 1
    /\ Len(line) + 1 <= IFX_RADAR_SENSING_VALUE_MAXLENGTH

\* C24 witness: the user typed digits and no carriage return; the editor has
\* returned after maxlength-1 of them, all stored.
C24_Witness ==
    /\ upc = "set_param"
    /\ Len(typed) = IFX_RADAR_SENSING_VALUE_MAXLENGTH - 1
    /\ \A k \in 1..Len(typed) : typed[k] = "1"
    /\ line = typed

\* the UI task is running the set_mute(true) of the menu or the line editor
MuteRequested == UiRuns /\ upc \in {"menu_mute", "rl_mute"}

\* the radar task holds the console mutex only for the print in the callback
RadarHoldsOnlyToPrint ==
    [](owner = "radar" => rpc \in {"cb_print", "cb_release"})

\* C25 (as claimed): the radar task holds the mutex only for the print in
\* the callback, so never where it halts, and every mute request of the UI
\* task eventually succeeds.
C25_MuteEventuallySucceeds ==
    /\ RadarHoldsOnlyToPrint
    /\ MuteRequested ~> (owner = "ui")

\* C25 (amended): the radar task holds the mutex only for the print in the
\* callback, so never where it halts, and every mute request of the UI task
\* eventually succeeds unless the device is halted by CY_ASSERT(0) first.
C25_MuteSucceedsUnlessHalted ==
    /\ RadarHoldsOnlyToPrint
    /\ MuteRequested ~> (owner = "ui" \/ Halted)

\* C25 witness: the callback has printed under the mutex and released it,
\* and the mute request of a menu asked for with '?' has succeeded.
C25_Witness ==
    /\ upc = "menu_title" /\ cmd = "?" /\ owner = "ui" /\ lines # << >>

\* C26 (as claimed): the presence indicator and the absence indicator are
\* never on together, the state between the callback's two writes included.
C26_IndicatorsNeverBothOn ==
    ~(ledRed = LED_STATE_ON /\ ledGreen = LED_STATE_ON)

\* C27: whenever the UI task can run, and once it has left its first
\* set_mute(true), the console mutex has been initialised; so it has when
\* the callback acquires and releases it.
C27_MutexInitBeforeUse ==
    /\ UiRuns => mutexInit
    /\ upc # "menu_mute" => mutexInit
    /\ rpc \in {"cb_get", "cb_print", "cb_release"} => mutexInit

\* C27 witness: the UI task's first mute request has succeeded during the
\* radar task's first suspension, inside mtb_radar_sensing_init.
C27_Witness ==
    /\ upc = "menu_title" /\ cmd = "none" /\ owner = "ui" /\ mutexInit
    /\ rpc = "engine_init" /\ rsub = "blocked"

\* C28 (as claimed): when the UI task is at a get_parameter or set_parameter
\* call, the engine has been initialised and both defaults have been set.
C28_ConfigAfterBringUp ==
    (UiRuns /\ upc \in {"menu_get_range", "menu_get_sens", "set_param"}) =>
        /\ engInit = "ok"
        /\ \E k \in 1..Len(engLog) : engLog[k] = "set_sens"
        /\ rpc \notin {"set_range", "set_sens"}

\* C29: for an event that is neither PresenceIn nor PresenceOut the callback
\* returns in one step that changes no indicator, leaves the console mutex
\* and its waiters as they are, records no acquire and prints no line.
C29_OtherEventChangesNothing ==
    [][(rpc = "callback" /\ ev = OtherEvent /\ rpc' # rpc) =>
         /\ rpc' = "proc_ret"
         /\ UNCHANGED << ledRed, ledGreen, mutexVars, lines, freeLog >>]_vars

\* C29 witness: the callback has returned from such an event, delivered
\* while the presence indicator was on and the UI held the mutex.
C29_Witness ==
    /\ rpc = "proc_ret" /\ ev = OtherEvent /\ lastEv = "in"
    /\ ledRed = LED_STATE_ON /\ ledGreen = LED_STATE_OFF /\ owner = "ui"

\* terminal_ui_readline has returned
ReadlineReturned == upc = "set_param"

\* C30 (as claimed): when terminal_ui_readline has returned, the console
\* mutex is held as often as it was on entry (not at all), whatever
\* maxlength was.
C30_ReadlineReleasesOnReturn ==
    ReadlineReturned => (holds = 0 /\ owner = "none")

====
